---- MODULE Spec2Model ----
(***************************************************************************)
(* Project Sentinel: one run of main() (main.py), the three connectors     *)
(* (connectors.py) and the headline sentiment aggregation (analysis.py).   *)
(*                                                                         *)
(* Scores are exact rationals [num, den] meaning num/den; a headline's     *)
(* compound score is a whole number of hundredths.  Prices are whole       *)
(* cents.  The polarity model, the broker, the news service and the price  *)
(* service are the environment: their results are chosen by \E.            *)
(***************************************************************************)
EXTENDS Integers, Sequences, FiniteSets, TLC

VARIABLES
    pc,                  \* position of main() / of the function it is inside
    cfg,                 \* the contents of config.ini as seen by configparser
    exc,                 \* exception travelling to main's except clauses
    ib_connected,        \* ib.isConnected()
    ib_disconnect_calls, \* number of ib.disconnect() calls
    status,              \* the branch each connector left through
    spy_ret,             \* value get_spy_name is about to return
    spy_name,            \* main: spy_name
    news_query,          \* get_market_news: params['q']
    headlines,           \* main: headlines
    detailed_results,    \* analyze_headlines_sentiment: detailed_results
    total_compound_score,\* analyze_headlines_sentiment: total_compound_score
    sentiment_analysis,  \* main: sentiment_analysis
    avg_sentiment_score, \* main: avg_sentiment_score
    btc_price,           \* main: btc_price
    report,              \* what display_report printed
    fatal,               \* what an except clause of main printed
    calls,               \* calls and returns of the functions main invokes
    divisions,           \* executions of the division at analysis.py:66
    score,               \* labeler run: the argument of get_sentiment_label
    label                \* labeler run: the value get_sentiment_label returned

vars == <<pc, cfg, exc, ib_connected, ib_disconnect_calls, status, spy_ret, spy_name, news_query, headlines,
          detailed_results, total_compound_score, sentiment_analysis,
          avg_sentiment_score, btc_price, report, fatal, calls, divisions,
          score, label>>

-----------------------------------------------------------------------------
(* Bounds *)

MaxHeadlines == 3
MaxLabelNum == 100

-----------------------------------------------------------------------------
(* Values *)

\* an unassigned name, no exception in flight, nothing printed
None == "None"
Unset == [unset |-> TRUE]
NoException == [type |-> "none"]
NoReport == [printed |-> FALSE]
NoFatal == [handler |-> "none"]

\* denominators of a compound score: hundredths
ScoreDen == 100

Rat(n, d) == [num |-> n, den |-> d]
Zero == Rat(0, 1)
RatEq(a, b) == a.num * b.den = b.num * a.den

\* the headlines the news service can deliver
HeadlineTexts ==
    {"Markets rally on strong earnings", "Recession fears grow",
     "Fed holds rates", "Stocks edge higher"}

\* analyzer.polarity_scores(headline)['compound'], in hundredths
polarity_compound(headline) ==
    CASE headline = "Markets rally on strong earnings" -> 60
      [] headline = "Recession fears grow" -> -70
      [] headline = "Fed holds rates" -> 0
      [] headline = "Stocks edge higher" -> 10

polarity_scores(headline) == [compound |-> polarity_compound(headline)]

\* longName values the broker can report
LongNames == {"SPDR S&P 500 ETF TRUST"}

\* last trade prices the price service can report, in cents
PricesCents == {0, 5, 99950, 6789010, 123456789}

RECURSIVE SeqsUpTo(_, _)
SeqsUpTo(S, n) ==
    IF n = 0 THEN {<<>>}
    ELSE LET shorter == SeqsUpTo(S, n - 1)
         IN  shorter \cup {Append(s, x) : s \in {t \in shorter : Len(t) = n - 1}, x \in S}

-----------------------------------------------------------------------------
(* main.py: get_sentiment_label *)

get_sentiment_label_Inclusive(s) ==
    IF 10 * s.num >= 3 * s.den THEN "POSITIVO"
    ELSE IF 100 * s.num > 5 * s.den THEN "NEUTRAL-POSITIVO"
    ELSE IF 10 * s.num < -3 * s.den THEN "NEGATIVO"
    ELSE IF 100 * s.num < -5 * s.den THEN "NEUTRAL-NEGATIVO"
    ELSE "NEUTRAL"

\* score > 0.3, > 0.05, < -0.3, < -0.05 on num/den with den > 0
get_sentiment_label(s) ==
    IF 10 * s.num > 3 * s.den THEN "POSITIVO"
    ELSE IF 100 * s.num > 5 * s.den THEN "NEUTRAL-POSITIVO"
    ELSE IF 10 * s.num < -3 * s.den THEN "NEGATIVO"
    ELSE IF 100 * s.num < -5 * s.den THEN "NEUTRAL-NEGATIVO"
    ELSE "NEUTRAL"

-----------------------------------------------------------------------------
(* main.py: display_report number formatting *)

Digit(d) ==
    CASE d = 0 -> "0" [] d = 1 -> "1" [] d = 2 -> "2" [] d = 3 -> "3"
      [] d = 4 -> "4" [] d = 5 -> "5" [] d = 6 -> "6" [] d = 7 -> "7"
      [] d = 8 -> "8" [] d = 9 -> "9"

\* exactly three digits, zero padded
Digits3(n) == Digit(n \div 100) \o Digit((n \div 10) % 10) \o Digit(n % 10)

RECURSIVE Decimal(_)
Decimal(n) == IF n < 10 THEN Digit(n) ELSE Decimal(n \div 10) \o Digit(n % 10)

\* the ',' option: groups of three digits from the right
RECURSIVE Grouped(_)
Grouped(n) ==
    IF n < 1000 THEN Decimal(n)
    ELSE Grouped(n \div 1000) \o "," \o Digits3(n % 1000)

\* f"${btc_price:,.2f}" for a non-negative price of whole cents
FormatPrice(cents) ==
    "$" \o Grouped(cents \div 100) \o "." \o Digit((cents \div 10) % 10) \o Digit(cents % 10)

-----------------------------------------------------------------------------
(* main.py: load_config and the four config reads of main *)

Sections == {"IBKR", "NEWS_API"}
Options == {"HOST", "PORT", "CLIENT_ID", "API_KEY"}
IntOptions == {"PORT", "CLIENT_ID"}

\* config.ini: whether it can be read, the sections and options it has, and
\* the integer options whose text is not an integer
Configs ==
    [file : BOOLEAN, sections : SUBSET Sections, options : SUBSET Options,
     nonint : SUBSET IntOptions]

NoSectionError(section) == [type |-> "NoSectionError", section |-> section]
NoOptionError(option, section) ==
    [type |-> "NoOptionError", option |-> option, section |-> section]

config_get_NoSectionCheck(c, section, option) ==
    IF option \notin c.options \/ section \notin c.sections
    THEN NoOptionError(option, section)
    ELSE IF option \in IntOptions /\ option \in c.nonint THEN [type |-> "ValueError"]
    ELSE NoException

\* config.get(section, option) / config.getint(section, option)
config_get(c, section, option) ==
    IF section \notin c.sections THEN NoSectionError(section)
    ELSE IF option \notin c.options THEN NoOptionError(option, section)
    ELSE IF option \in IntOptions /\ option \in c.nonint THEN [type |-> "ValueError"]
    ELSE NoException

\* main.py:120-123, the first read that raises
extract_params(c) ==
    LET reads == << <<"IBKR", "HOST">>, <<"IBKR", "PORT">>,
                    <<"IBKR", "CLIENT_ID">>, <<"NEWS_API", "API_KEY">> >>
        failing == {i \in 1..Len(reads) :
                       config_get(c, reads[i][1], reads[i][2]) # NoException}
    IN  IF failing = {} THEN NoException
        ELSE LET first == CHOOSE i \in failing : \A j \in failing : i <= j
             IN  config_get(c, reads[first][1], reads[first][2])

Call(f) == <<"call", f>>
Ret(f) == <<"return", f>>

LoadConfig ==
    /\ pc = "load_config"
    /\ IF cfg.file
       THEN /\ calls' = calls \o <<Call("load_config"), Ret("load_config")>>
            /\ pc' = "extract_params"
            /\ exc' = exc
       ELSE /\ calls' = Append(calls, Call("load_config"))
            /\ exc' = [type |-> "FileNotFoundError"]
            /\ pc' = "except"
    /\ UNCHANGED <<cfg, ib_connected, ib_disconnect_calls, status, spy_ret,
                   spy_name, news_query, headlines, detailed_results,
                   total_compound_score, sentiment_analysis,
                   avg_sentiment_score, btc_price, report, fatal, divisions,
                   score, label>>

ExtractParams ==
    /\ pc = "extract_params"
    /\ IF extract_params(cfg) = NoException
       THEN pc' = "spy_connect" /\ exc' = exc
       ELSE pc' = "except" /\ exc' = extract_params(cfg)
    /\ UNCHANGED <<cfg, ib_connected, ib_disconnect_calls, status, spy_ret,
                   spy_name, news_query, headlines, detailed_results,
                   total_compound_score, sentiment_analysis,
                   avg_sentiment_score, btc_price, report, fatal, calls,
                   divisions, score, label>>

-----------------------------------------------------------------------------
(* connectors.py: get_spy_name *)

SpyConnect_NoSentinel ==
    /\ pc = "spy_connect"
    /\ calls' = Append(calls, Call("get_spy_name"))
    /\ \E outcome \in {"connected", "ConnectionRefusedError", "Exception"} :
          IF outcome = "connected"
          THEN /\ ib_connected' = TRUE
               /\ pc' = "spy_details"
               /\ UNCHANGED <<status, spy_ret>>
          ELSE /\ ib_connected' = FALSE
               /\ status' = [status EXCEPT !.spy = outcome]
               /\ spy_ret' = None
               /\ pc' = "spy_finally"
    /\ UNCHANGED <<cfg, exc, ib_disconnect_calls, spy_name, news_query,
                   headlines, detailed_results, total_compound_score,
                   sentiment_analysis, avg_sentiment_score, btc_price, report,
                   fatal, divisions, score, label>>

\* ib.connect(...): connected, ConnectionRefusedError, or another exception
\* (a timeout)
SpyConnect ==
    /\ pc = "spy_connect"
    /\ calls' = Append(calls, Call("get_spy_name"))
    /\ \E outcome \in {"connected", "ConnectionRefusedError", "Exception"} :
          IF outcome = "connected"
          THEN /\ ib_connected' = TRUE
               /\ pc' = "spy_details"
               /\ UNCHANGED <<status, spy_ret>>
          ELSE /\ ib_connected' = FALSE
               /\ status' = [status EXCEPT !.spy = outcome]
               /\ spy_ret' = "Desconocido"
               /\ pc' = "spy_finally"
    /\ UNCHANGED <<cfg, exc, ib_disconnect_calls, spy_name, news_query,
                   headlines, detailed_results, total_compound_score,
                   sentiment_analysis, avg_sentiment_score, btc_price, report,
                   fatal, divisions, score, label>>

\* ib.reqContractDetails(contract) and the name extraction; the peer may
\* drop the connection while the request is outstanding
SpyReqDetails ==
    /\ pc = "spy_details"
    /\ \E outcome \in {"ok", "no_details", "Exception"}, still \in BOOLEAN :
          /\ ib_connected' = still
          /\ status' = [status EXCEPT !.spy = outcome]
          /\ IF outcome = "ok"
             THEN \E long_name \in LongNames : spy_ret' = long_name
             ELSE spy_ret' = "Desconocido"
    /\ pc' = "spy_finally"
    /\ UNCHANGED <<cfg, exc, ib_disconnect_calls, spy_name, news_query,
                   headlines, detailed_results, total_compound_score,
                   sentiment_analysis, avg_sentiment_score, btc_price, report,
                   fatal, calls, divisions, score, label>>

\* the finally clause, then the return into main.py:128
SpyFinally_NoDisconnect ==
    /\ pc = "spy_finally"
    /\ spy_name' = spy_ret
    /\ calls' = Append(calls, Ret("get_spy_name"))
    /\ pc' = "news"
    /\ UNCHANGED <<cfg, exc, ib_connected, ib_disconnect_calls, status,
                   spy_ret, news_query, headlines, detailed_results,
                   total_compound_score, sentiment_analysis,
                   avg_sentiment_score, btc_price, report, fatal, divisions,
                   score, label>>

SpyFinally ==
    /\ pc = "spy_finally"
    /\ IF ib_connected
       THEN ib_connected' = FALSE /\ ib_disconnect_calls' = ib_disconnect_calls + 1
       ELSE UNCHANGED <<ib_connected, ib_disconnect_calls>>
    /\ spy_name' = spy_ret
    /\ calls' = Append(calls, Ret("get_spy_name"))
    /\ pc' = "news"
    /\ UNCHANGED <<cfg, exc, status, spy_ret, news_query, headlines,
                   detailed_results, total_compound_score, sentiment_analysis,
                   avg_sentiment_score, btc_price, report, fatal, divisions,
                   score, label>>

-----------------------------------------------------------------------------
(* connectors.py: get_market_news *)

GetMarketNews_Retry ==
    /\ pc = "news"
    /\ news_query' = spy_name
    /\ calls' = calls \o <<Call("get_market_news"), Ret("get_market_news")>>
    /\ \E outcome \in {"ok", "RequestException", "KeyError", "Exception"} :
          /\ status' = [status EXCEPT !.news = outcome]
          /\ IF outcome = "ok"
             THEN /\ \E titles \in SeqsUpTo(HeadlineTexts, MaxHeadlines) :
                        headlines' = titles
                  /\ pc' = "analyze"
             ELSE /\ headlines' = <<>>
                  /\ pc' = IF status.news = "none" THEN "news" ELSE "analyze"
    /\ UNCHANGED <<cfg, exc, ib_connected, ib_disconnect_calls, spy_ret,
                   spy_name, detailed_results, total_compound_score,
                   sentiment_analysis, avg_sentiment_score, btc_price, report,
                   fatal, divisions, score, label>>

GetMarketNews_KeepsTitles ==
    /\ pc = "news"
    /\ news_query' = spy_name
    /\ calls' = calls \o <<Call("get_market_news"), Ret("get_market_news")>>
    /\ \E outcome \in {"ok", "RequestException", "KeyError", "Exception"} :
          /\ status' = [status EXCEPT !.news = outcome]
          /\ IF outcome \in {"ok", "KeyError"}
             THEN \E titles \in SeqsUpTo(HeadlineTexts, MaxHeadlines) :
                      headlines' = titles
             ELSE headlines' = <<>>
    /\ pc' = "analyze"
    /\ UNCHANGED <<cfg, exc, ib_connected, ib_disconnect_calls, spy_ret,
                   spy_name, detailed_results, total_compound_score,
                   sentiment_analysis, avg_sentiment_score, btc_price, report,
                   fatal, divisions, score, label>>

\* requests.get / raise_for_status / json / title extraction: the titles, or
\* one of the three except clauses, each returning []
GetMarketNews ==
    /\ pc = "news"
    /\ news_query' = spy_name
    /\ calls' = calls \o <<Call("get_market_news"), Ret("get_market_news")>>
    /\ \E outcome \in {"ok", "RequestException", "KeyError", "Exception"} :
          /\ status' = [status EXCEPT !.news = outcome]
          /\ IF outcome = "ok"
             THEN \E titles \in SeqsUpTo(HeadlineTexts, MaxHeadlines) :
                      headlines' = titles
             ELSE headlines' = <<>>
    /\ pc' = "analyze"
    /\ UNCHANGED <<cfg, exc, ib_connected, ib_disconnect_calls, spy_ret,
                   spy_name, detailed_results, total_compound_score,
                   sentiment_analysis, avg_sentiment_score, btc_price, report,
                   fatal, divisions, score, label>>

-----------------------------------------------------------------------------
(* analysis.py: analyze_headlines_sentiment *)

\* the value returned to main.py:131, and main.py:133 reading the average
AnalyzeReturn(result) ==
    /\ sentiment_analysis' = result
    /\ avg_sentiment_score' = result.average_sentiment_compound
    /\ calls' = Append(calls, Ret("analyze_headlines_sentiment"))
    /\ pc' = "btc"

\* analysis.py:36-47: the empty-list guard, else the loop's initial state
AnalyzeEnter_NoGuard ==
    /\ pc = "analyze"
    /\ calls' = Append(calls, Call("analyze_headlines_sentiment"))
    /\ detailed_results' = <<>>
    /\ total_compound_score' = 0
    /\ pc' = "analyze_loop"
    /\ UNCHANGED <<sentiment_analysis, avg_sentiment_score>>
    /\ UNCHANGED <<cfg, exc, ib_connected, ib_disconnect_calls, status,
                   spy_ret, spy_name, news_query, headlines, btc_price,
                   report, fatal, divisions, score, label>>

AnalyzeEnter ==
    /\ pc = "analyze"
    /\ IF headlines = <<>>
       THEN /\ sentiment_analysis' =
                   [average_sentiment_compound |-> Zero, details |-> <<>>]
            /\ avg_sentiment_score' = Zero
            /\ calls' = calls \o <<Call("analyze_headlines_sentiment"),
                                   Ret("analyze_headlines_sentiment")>>
            /\ pc' = "btc"
            /\ UNCHANGED <<detailed_results, total_compound_score>>
       ELSE /\ calls' = Append(calls, Call("analyze_headlines_sentiment"))
            /\ detailed_results' = <<>>
            /\ total_compound_score' = 0
            /\ pc' = "analyze_loop"
            /\ UNCHANGED <<sentiment_analysis, avg_sentiment_score>>
    /\ UNCHANGED <<cfg, exc, ib_connected, ib_disconnect_calls, status,
                   spy_ret, spy_name, news_query, headlines, btc_price,
                   report, fatal, divisions, score, label>>

\* one iteration of the for loop, analysis.py:49-63
AnalyzeLoop_SkipSum ==
    /\ pc = "analyze_loop"
    /\ Len(detailed_results) < Len(headlines)
    /\ LET headline == headlines[Len(detailed_results) + 1]
           sentiment_scores == polarity_scores(headline)
       IN  /\ detailed_results' =
                  Append(detailed_results,
                         [headline |-> headline,
                          sentiment_scores |-> sentiment_scores])
           /\ total_compound_score' =
                  IF detailed_results = <<>> THEN total_compound_score
                  ELSE total_compound_score + sentiment_scores.compound
    /\ UNCHANGED <<pc, cfg, exc, ib_connected, ib_disconnect_calls, status,
                   spy_ret, spy_name, news_query, headlines,
                   sentiment_analysis, avg_sentiment_score, btc_price, report,
                   fatal, calls, divisions, score, label>>

AnalyzeLoop ==
    /\ pc = "analyze_loop"
    /\ Len(detailed_results) < Len(headlines)
    /\ LET headline == headlines[Len(detailed_results) + 1]
           sentiment_scores == polarity_scores(headline)
       IN  /\ detailed_results' =
                  Append(detailed_results,
                         [headline |-> headline,
                          sentiment_scores |-> sentiment_scores])
           /\ total_compound_score' =
                  total_compound_score + sentiment_scores.compound
    /\ UNCHANGED <<pc, cfg, exc, ib_connected, ib_disconnect_calls, status,
                   spy_ret, spy_name, news_query, headlines,
                   sentiment_analysis, avg_sentiment_score, btc_price, report,
                   fatal, calls, divisions, score, label>>

\* analysis.py:66-74: the division by len(headlines) and the return; the
\* division raises ZeroDivisionError into main when the list is empty
AnalyzeDivide ==
    /\ pc = "analyze_loop"
    /\ Len(detailed_results) = Len(headlines)
    /\ divisions' = divisions + 1
    /\ IF Len(headlines) = 0
       THEN /\ exc' = [type |-> "ZeroDivisionError"]
            /\ pc' = "except"
            /\ UNCHANGED <<sentiment_analysis, avg_sentiment_score, calls>>
       ELSE /\ AnalyzeReturn(
                   [average_sentiment_compound |->
                        Rat(total_compound_score, ScoreDen * Len(headlines)),
                    details |-> detailed_results])
            /\ exc' = exc
    /\ UNCHANGED <<cfg, ib_connected, ib_disconnect_calls, status, spy_ret,
                   spy_name, news_query, headlines, detailed_results,
                   total_compound_score, btc_price, report, fatal, score,
                   label>>

-----------------------------------------------------------------------------
(* connectors.py: get_btc_price *)

\* a price from the ticker, the API's error list, or the except clause
GetBtcPrice_Raises ==
    /\ pc = "btc"
    /\ \E outcome \in {"ok", "api_error", "Exception"} :
          /\ status' = [status EXCEPT !.btc = outcome]
          /\ IF outcome = "ok"
             THEN /\ \E last_trade_price \in PricesCents :
                        btc_price' = last_trade_price
                  /\ calls' = calls \o <<Call("get_btc_price"), Ret("get_btc_price")>>
                  /\ pc' = "report"
                  /\ exc' = exc
             ELSE IF outcome = "api_error"
             THEN /\ btc_price' = 0
                  /\ calls' = calls \o <<Call("get_btc_price"), Ret("get_btc_price")>>
                  /\ pc' = "report"
                  /\ exc' = exc
             ELSE /\ btc_price' = btc_price
                  /\ calls' = Append(calls, Call("get_btc_price"))
                  /\ pc' = "except"
                  /\ exc' = [type |-> "Exception"]
    /\ UNCHANGED <<cfg, ib_connected, ib_disconnect_calls, spy_ret, spy_name,
                   news_query, headlines, detailed_results,
                   total_compound_score, sentiment_analysis,
                   avg_sentiment_score, report, fatal, divisions, score,
                   label>>

GetBtcPrice ==
    /\ pc = "btc"
    /\ calls' = calls \o <<Call("get_btc_price"), Ret("get_btc_price")>>
    /\ \E outcome \in {"ok", "api_error", "Exception"} :
          /\ status' = [status EXCEPT !.btc = outcome]
          /\ IF outcome = "ok"
             THEN \E last_trade_price \in PricesCents :
                      btc_price' = last_trade_price
             ELSE btc_price' = 0
    /\ pc' = "report"
    /\ UNCHANGED <<cfg, exc, ib_connected, ib_disconnect_calls, spy_ret,
                   spy_name, news_query, headlines, detailed_results,
                   total_compound_score, sentiment_analysis,
                   avg_sentiment_score, report, fatal, divisions, score,
                   label>>

-----------------------------------------------------------------------------
(* main.py: display_report and the except clauses of main *)

\* the lines of the report that depend on the arguments: main.py:85, 86, 95
\* and 100
DisplayReport ==
    /\ pc = "report"
    /\ calls' = calls \o <<Call("display_report"), Ret("display_report")>>
    /\ score' = avg_sentiment_score
    /\ LET sentiment_label == get_sentiment_label(avg_sentiment_score)
       IN  /\ label' = sentiment_label
           /\ report' = [printed |-> TRUE,
                         asset |-> spy_name,
                         sentiment |-> sentiment_label,
                         price |-> FormatPrice(btc_price),
                         conclusion |-> sentiment_label]
    /\ pc' = "done"
    /\ UNCHANGED <<cfg, exc, ib_connected, ib_disconnect_calls, status,
                   spy_ret, spy_name, news_query, headlines, detailed_results,
                   total_compound_score, sentiment_analysis,
                   avg_sentiment_score, btc_price, fatal, divisions>>

MainExcept_NoCatchAll ==
    /\ pc = "except"
    /\ fatal' =
          CASE exc.type = "FileNotFoundError" -> [handler |-> "FileNotFoundError"]
            [] exc.type = "NoSectionError" ->
                  [handler |-> "NoSectionError", section |-> exc.section]
            [] exc.type = "NoOptionError" ->
                  [handler |-> "NoOptionError", option |-> exc.option,
                   section |-> exc.section]
            [] OTHER -> fatal
    /\ pc' = "done"
    /\ UNCHANGED <<cfg, exc, ib_connected, ib_disconnect_calls, status,
                   spy_ret, spy_name, news_query, headlines, detailed_results,
                   total_compound_score, sentiment_analysis,
                   avg_sentiment_score, btc_price, report, calls, divisions,
                   score, label>>

\* main.py:143-156: the first except clause that matches the exception
MainExcept ==
    /\ pc = "except"
    /\ fatal' =
          CASE exc.type = "FileNotFoundError" -> [handler |-> "FileNotFoundError"]
            [] exc.type = "NoSectionError" ->
                  [handler |-> "NoSectionError", section |-> exc.section]
            [] exc.type = "NoOptionError" ->
                  [handler |-> "NoOptionError", option |-> exc.option,
                   section |-> exc.section]
            [] OTHER -> [handler |-> "Exception", type |-> exc.type]
    /\ pc' = "done"
    /\ UNCHANGED <<cfg, exc, ib_connected, ib_disconnect_calls, status,
                   spy_ret, spy_name, news_query, headlines, detailed_results,
                   total_compound_score, sentiment_analysis,
                   avg_sentiment_score, btc_price, report, calls, divisions,
                   score, label>>

-----------------------------------------------------------------------------
(* One run of main() *)

Start ==
    /\ exc = NoException
    /\ ib_connected = FALSE
    /\ ib_disconnect_calls = 0
    /\ status = [spy |-> "none", news |-> "none", btc |-> "none"]
    /\ spy_ret = None
    /\ spy_name = None
    /\ news_query = None
    /\ headlines = <<>>
    /\ detailed_results = <<>>
    /\ total_compound_score = 0
    /\ sentiment_analysis = Unset
    /\ avg_sentiment_score = Unset
    /\ btc_price = Unset
    /\ report = NoReport
    /\ fatal = NoFatal
    /\ calls = <<>>
    /\ divisions = 0
    /\ label = None

Init ==
    /\ pc = "load_config"
    /\ cfg \in Configs
    /\ score = Unset
    /\ Start

Next ==
    \/ LoadConfig
    \/ ExtractParams
    \/ SpyConnect
    \/ SpyReqDetails
    \/ SpyFinally
    \/ GetMarketNews
    \/ AnalyzeEnter
    \/ AnalyzeLoop
    \/ AnalyzeDivide
    \/ GetBtcPrice
    \/ DisplayReport
    \/ MainExcept

Spec == Init /\ [][Next]_vars

\* main is straight-line code and every call it makes returns or raises
FairSpec == Spec /\ WF_vars(Next)

-----------------------------------------------------------------------------
(* get_sentiment_label applied to one score *)

ValidConfig ==
    [file |-> TRUE, sections |-> Sections, options |-> Options, nonint |-> {}]

\* the hundredths from -MaxLabelNum to MaxLabelNum, and the scores one
\* ten-millionth to either side of each threshold
LabelInputs ==
    {Rat(n, ScoreDen) : n \in -MaxLabelNum..MaxLabelNum}
    \cup {Rat(t + e, 10000000) :
              t \in {3000000, 500000, -500000, -3000000}, e \in {-1, 1}}

LabelInit ==
    /\ pc = "label_call"
    /\ cfg = ValidConfig
    /\ score \in LabelInputs
    /\ Start

LabelApply ==
    /\ pc = "label_call"
    /\ label' = get_sentiment_label(score)
    /\ pc' = "label_done"
    /\ UNCHANGED <<cfg, exc, ib_connected, ib_disconnect_calls, status,
                   spy_ret, spy_name, news_query, headlines, detailed_results,
                   total_compound_score, sentiment_analysis,
                   avg_sentiment_score, btc_price, report, fatal, calls,
                   divisions, score>>

LabelNext == LabelApply

LabelSpec == LabelInit /\ [][LabelNext]_vars

-----------------------------------------------------------------------------
(* Properties *)

RatLt(a, b) == a.num * b.den < b.num * a.den
RatLe(a, b) == a.num * b.den <= b.num * a.den

Called(f) == \E i \in 1..Len(calls) : calls[i] = Call(f)
Returned(f) == \E i \in 1..Len(calls) : calls[i] = Ret(f)
Fetches == {"get_spy_name", "get_market_news", "get_btc_price"}

ConfigValid == cfg.file /\ extract_params(cfg) = NoException
SpyFailed == status.spy \in {"ConnectionRefusedError", "Exception", "no_details"}
NewsFailed == status.news \in {"RequestException", "KeyError", "Exception"}
BtcFailed == status.btc \in {"api_error", "Exception"}

\* the table of section 4.2 with the five label texts as parameters
LabelTable(s, l, positive, neutral_positive, negative, neutral_negative, neutral) ==
    /\ RatLt(Rat(3, 10), s) => l = positive
    /\ RatLt(Rat(5, 100), s) /\ RatLe(s, Rat(3, 10)) => l = neutral_positive
    /\ RatLt(s, Rat(-3, 10)) => l = negative
    /\ RatLe(Rat(-3, 10), s) /\ RatLt(s, Rat(-5, 100)) => l = neutral_negative
    /\ RatLe(Rat(-5, 100), s) /\ RatLe(s, Rat(5, 100)) => l = neutral

\* C1 as stated: every score gets the label of its row of the table, the
\* labels being POSITIVE, NEUTRAL-POSITIVE, NEGATIVE, NEUTRAL-NEGATIVE and
\* NEUTRAL.
C1_EnglishLabels ==
    pc = "label_done" =>
        LabelTable(score, label, "POSITIVE", "NEUTRAL-POSITIVE", "NEGATIVE",
                   "NEUTRAL-NEGATIVE", "NEUTRAL")

\* C1 amended: every score gets exactly the label of its row of the table,
\* with the boundaries as tabulated (0.3 and -0.3 in the inner rows, 0.05 and
\* -0.05 in NEUTRAL); the label texts are POSITIVO, NEUTRAL-POSITIVO,
\* NEGATIVO, NEUTRAL-NEGATIVO and NEUTRAL.
C1_LabelBoundaries ==
    pc = "label_done" =>
        /\ LabelTable(score, label, "POSITIVO", "NEUTRAL-POSITIVO", "NEGATIVO",
                      "NEUTRAL-NEGATIVO", "NEUTRAL")
        /\ label \in {"POSITIVO", "NEUTRAL-POSITIVO", "NEGATIVO",
                      "NEUTRAL-NEGATIVO", "NEUTRAL"}

C1_Witness ==
    /\ pc = "label_done"
    /\ score = Rat(30, ScoreDen)
    /\ label = "NEUTRAL-POSITIVO"

RECURSIVE SumCompound(_)
SumCompound(hs) ==
    IF hs = <<>> THEN 0
    ELSE polarity_compound(Head(hs)) + SumCompound(Tail(hs))

\* C2: for N >= 1 headlines the returned average is the sum of the N compound
\* scores divided by N, and details has N entries, the i-th carrying the i-th
\* headline and its scores.
C2_MeanAndDetails ==
    (Returned("analyze_headlines_sentiment") /\ headlines # <<>>) =>
        /\ RatEq(sentiment_analysis.average_sentiment_compound,
                 Rat(SumCompound(headlines), ScoreDen * Len(headlines)))
        /\ avg_sentiment_score = sentiment_analysis.average_sentiment_compound
        /\ Len(sentiment_analysis.details) = Len(headlines)
        /\ \A i \in 1..Len(headlines) :
              /\ sentiment_analysis.details[i].headline = headlines[i]
              /\ sentiment_analysis.details[i].sentiment_scores =
                     polarity_scores(headlines[i])

C2_Witness ==
    /\ Returned("analyze_headlines_sentiment")
    /\ Len(headlines) = 3
    /\ headlines[1] = headlines[3]
    /\ headlines[1] # headlines[2]
    /\ sentiment_analysis.average_sentiment_compound.num # 0

\* C3: for an empty headline list the function returns average 0.0 and empty
\* details, raises nothing and never executes the division.
C3_EmptyDefault ==
    (Called("analyze_headlines_sentiment") /\ headlines = <<>>) =>
        /\ Returned("analyze_headlines_sentiment")
        /\ sentiment_analysis =
               [average_sentiment_compound |-> Zero, details |-> <<>>]
        /\ divisions = 0
        /\ exc = NoException

C3_Witness ==
    /\ Returned("analyze_headlines_sentiment")
    /\ headlines = <<>>
    /\ status.news = "ok"
    /\ report.printed

C4_Defaults ==
    (ConfigValid /\ pc = "done") =>
        /\ report.printed
        /\ fatal = NoFatal
        /\ exc = NoException
        /\ SpyFailed => report.asset = "Desconocido"
        /\ NewsFailed => headlines = <<>>
        /\ BtcFailed => btc_price = 0 /\ report.price = "$0.00"

SectionOf(option) == IF option = "API_KEY" THEN "NEWS_API" ELSE "IBKR"
SomethingMissing(c) == c.sections # Sections \/ c.options # Options

\* the message names a condition the configuration really has
MessageFitsConfig ==
    \/ fatal.handler = "FileNotFoundError" /\ ~cfg.file
    \/ /\ fatal.handler = "NoSectionError"
       /\ cfg.file
       /\ fatal.section \in Sections \ cfg.sections
    \/ /\ fatal.handler = "NoOptionError"
       /\ cfg.file
       /\ fatal.option \in Options \ cfg.options
       /\ fatal.section = SectionOf(fatal.option)
       /\ fatal.section \in cfg.sections

NothingFetchedOrRendered ==
    /\ \A f \in Fetches : ~Called(f)
    /\ ~Called("display_report")
    /\ report = NoReport

\* PORT or CLIENT_ID is read, and is not an integer, before any read of
\* main.py:120-123 meets a missing section or key
BadIntegerReadFirst(c) ==
    /\ "IBKR" \in c.sections
    /\ {"HOST", "PORT"} \subseteq c.options
    /\ \/ "PORT" \in c.nonint
       \/ "CLIENT_ID" \in c.options /\ "CLIENT_ID" \in c.nonint

C6_ConnectionReleased ==
    /\ pc \notin {"spy_details", "spy_finally"} => ~ib_connected
    /\ ib_disconnect_calls <= 1

C6_Witness ==
    /\ Returned("get_spy_name")
    /\ status.spy = "Exception"
    /\ ib_disconnect_calls = 1

\* the three parts of C7 with the sentinel text as parameter
SentinelFlows(sentinel) ==
    /\ (SpyFailed /\ Returned("get_spy_name")) => spy_name = sentinel
    /\ (SpyFailed /\ pc \in {"analyze", "analyze_loop", "btc", "report", "done"}) =>
           /\ Called("get_market_news")
           /\ news_query = sentinel
    /\ (SpyFailed /\ pc = "done") =>
           /\ report.printed
           /\ report.asset = sentinel
           /\ fatal = NoFatal

\* C7 as stated: a failed reference-asset fetch returns "Unknown", the news
\* fetch is invoked with "Unknown" as its query and the report shows the
\* asset name "Unknown".
C7_SentinelUnknown == SentinelFlows("Unknown")

\* C7 amended: a failed reference-asset fetch (connection refused, any other
\* error, no contract details) returns the sentinel "Desconocido", the news
\* fetch is still invoked with that string as its query and the report
\* renders the asset name as "Desconocido" without a crash.
C7_SentinelDesconocido == SentinelFlows("Desconocido")

C7_Witness ==
    /\ pc = "done"
    /\ status.spy = "no_details"
    /\ news_query = "Desconocido"
    /\ report.asset = "Desconocido"

\* C8: every run of main ends, and ends having printed exactly one of the
\* report and a fatal message; no exception leaves main.
C8_ExactlyOneOutcome ==
    /\ <>(pc = "done")
    /\ [](~(report.printed /\ fatal # NoFatal))
    /\ [](pc = "done" => (report.printed \/ fatal # NoFatal))

C8_Witness ==
    /\ pc = "done"
    /\ fatal = [handler |-> "Exception", type |-> "ValueError"]
    /\ ~report.printed

\* the calls and returns of a complete run, in the order of main.py:117-141
MainOrder ==
    <<Call("load_config"), Ret("load_config"),
      Call("get_spy_name"), Ret("get_spy_name"),
      Call("get_market_news"), Ret("get_market_news"),
      Call("analyze_headlines_sentiment"), Ret("analyze_headlines_sentiment"),
      Call("get_btc_price"), Ret("get_btc_price"),
      Call("display_report"), Ret("display_report")>>

\* C9: the steps run in the order load, reference asset, news (queried with
\* the returned name), aggregation, price, report; each at most once, each
\* starting only after the previous one returned, and the report only after
\* the three fetches returned.
C9_SequentialOrder ==
    /\ Len(calls) <= Len(MainOrder)
    /\ \A i \in 1..Len(calls) : calls[i] = MainOrder[i]
    /\ Called("get_market_news") => news_query = spy_name
    /\ Called("display_report") => \A f \in Fetches : Returned(f)

C9_Witness ==
    /\ pc = "done"
    /\ calls = MainOrder
    /\ NewsFailed
    /\ BtcFailed

\* C10: a failed news fetch returns no headlines, so the score given to the
\* report is 0.0 and both the market section and the conclusion show NEUTRAL;
\* the two places show the same label in every report.
C10_NewsFailureNeutral ==
    /\ NewsFailed => headlines = <<>>
    /\ (NewsFailed /\ report.printed) =>
           /\ RatEq(score, Zero)
           /\ report.sentiment = "NEUTRAL"
           /\ report.conclusion = "NEUTRAL"
    /\ report.printed => report.sentiment = report.conclusion

C10_Witness ==
    /\ report.printed
    /\ status.news = "KeyError"
    /\ report.sentiment = "NEUTRAL"
    /\ report.conclusion = "NEUTRAL"

====
